---- MODULE Spec2Model ----
(***************************************************************************)
(* Model of src/app.py: the webhook relay check_inventory, its per-store   *)
(* INVENTORY_CACHE with prune_cache, and update_appsheet_row with its      *)
(* four-worker executor.                                                    *)
(***************************************************************************)
EXTENDS Integers, Sequences, FiniteSets, TLC

VARIABLES
    env,              \* environment variables read at import (lines 26-33)
    proc,             \* "starting" | "serving" | "exited" (lines 36-40)
    clock,            \* time.time(), in seconds
    INVENTORY_CACHE,  \* store_id -> entry | NoEntry (line 80)
    h,                \* one record per handler thread running check_inventory
    served,           \* number of requests received so far
    queue,            \* work queue of the executor (line 84)
    running,          \* tasks held by pool workers
    sink,             \* the executor's count of submitted tasks, and what the sink saw
    lastPut,          \* history: per store, the snapshot last stored and the number of stores
    pure              \* inputs and results of the standalone resolution runs

vars == <<env, proc, clock, INVENTORY_CACHE, h, served, queue, running, sink, lastPut, pure>>

----------------------------------------------------------------------------
(* Program constants *)

CACHE_TTL == 600

MAX_WORKERS == 4

ERROR_BODY_LIMIT == 200

ERROR_COLUMN_LIMIT == 250

(* Bounds of the model *)

MaxTicks == 2

MaxRequests == 2

MaxBacklog == 0

MaxConcurrent == 3

MaxBurst == 5

MaxPad == 2

\* the clock moves in steps of half a TTL, so that an entry is seen fresh, then stale
TickStep == CACHE_TTL \div 2

\* two requests are handled at a time
Threads == {1, 2}

Stores == {"S1", "S2"}

----------------------------------------------------------------------------
(* JSON values as Python sees them after json.loads *)

None == [t |-> "null"]

JInt(n) == [t |-> "int", v |-> n]

\* a str, kept as a sequence of pieces so that int() and strip() can look at them:
\* a quantity is held one character per piece, a blank is the piece " "
JStr(cs) == [t |-> "str", cs |-> cs]

\* a str the program builds itself (a label or a message), held as one piece
Text(s) == JStr(<<s>>)

\* a finite float  (-1)^neg * (w + f/10)
JFloat(neg, w, f) == [t |-> "float", neg |-> neg, w |-> w, f |-> f]

\* float('inf'): json.loads accepts Infinity and overflowing literals such as 1e999
JInf == [t |-> "inf"]

JNan == [t |-> "nan"]

JTrue == [t |-> "bool", b |-> TRUE]

JEmptyList == [t |-> "list"]

Digit(d) ==
    CASE d = 0 -> "0" [] d = 1 -> "1" [] d = 2 -> "2" [] d = 3 -> "3" [] d = 4 -> "4"
      [] d = 5 -> "5" [] d = 6 -> "6" [] d = 7 -> "7" [] d = 8 -> "8" [] d = 9 -> "9"

DigitValue(c) ==
    CASE c = "0" -> 0 [] c = "1" -> 1 [] c = "2" -> 2 [] c = "3" -> 3 [] c = "4" -> 4
      [] c = "5" -> 5 [] c = "6" -> 6 [] c = "7" -> 7 [] c = "8" -> 8 [] c = "9" -> 9

IsDigit(c) == c \in {"0", "1", "2", "3", "4", "5", "6", "7", "8", "9"}

RECURSIVE NatToStr(_)
NatToStr(n) ==
    IF n < 10 THEN Digit(n) ELSE NatToStr(n \div 10) \o Digit(n % 10)

IntToStr(n) ==
    IF n < 0 THEN "-" \o NatToStr(0 - n) ELSE NatToStr(n)

RECURSIVE Join(_)
Join(cs) ==
    IF cs = <<>> THEN "" ELSE Head(cs) \o Join(Tail(cs))

RECURSIVE LStrip(_)
LStrip(cs) ==
    IF cs # <<>> /\ Head(cs) = " " THEN LStrip(Tail(cs)) ELSE cs

RECURSIVE RStrip(_)
RStrip(cs) ==
    IF cs # <<>> /\ cs[Len(cs)] = " " THEN RStrip(SubSeq(cs, 1, Len(cs) - 1)) ELSE cs

\* str.strip()
Strip(cs) == RStrip(LStrip(cs))

RECURSIVE DigitsValue(_)
DigitsValue(cs) ==
    IF cs = <<>> THEN 0 ELSE 10 * DigitsValue(SubSeq(cs, 1, Len(cs) - 1)) + DigitValue(cs[Len(cs)])

AllDigits(cs) == cs # <<>> /\ \A i \in 1..Len(cs) : IsDigit(cs[i])

Returned(v) == [exc |-> "none", v |-> v]

Raised(e) == [exc |-> e]

\* int(str): surrounding whitespace and one sign are accepted, then decimal digits
IntOfStr(cs) ==
    LET s == Strip(cs)
        signed == s # <<>> /\ Head(s) \in {"-", "+"}
        body == IF signed THEN Tail(s) ELSE s
    IN  IF ~AllDigits(body) THEN Raised("ValueError")
        ELSE IF signed /\ Head(s) = "-" THEN Returned(0 - DigitsValue(body))
        ELSE Returned(DigitsValue(body))

\* int(q) for a JSON value q
PyInt(q) ==
    CASE q.t = "int" -> Returned(q.v)
      [] q.t = "bool" -> Returned(IF q.b THEN 1 ELSE 0)
      [] q.t = "float" -> Returned(IF q.neg THEN 0 - q.w ELSE q.w)
      [] q.t = "inf" -> Raised("OverflowError")
      [] q.t = "nan" -> Raised("ValueError")
      [] q.t = "str" -> IntOfStr(q.cs)
      [] q.t = "list" -> Raised("TypeError")
      [] q.t = "null" -> Raised("TypeError")

\* str(q) for a JSON value q
PyStr(q) ==
    CASE q.t = "int" -> IntToStr(q.v)
      [] q.t = "bool" -> IF q.b THEN "True" ELSE "False"
      [] q.t = "float" -> (IF q.neg THEN "-" ELSE "") \o NatToStr(q.w) \o "." \o Digit(q.f)
      [] q.t = "inf" -> "inf"
      [] q.t = "nan" -> "nan"
      [] q.t = "str" -> Join(q.cs)
      [] q.t = "list" -> "[]"
      [] q.t = "null" -> "None"

\* a cut that keeps everything
PrefixWhole(s, n) == s

\* s[:n]
Prefix(s, n) == IF Len(s) > n THEN SubSeq(s, 1, n) ELSE s

----------------------------------------------------------------------------
(* Resolution of one item against an index *)

\* dict.get(key): None both for a missing key and for a key mapped to None
DictGet(inventory_map, key) ==
    IF key \in DOMAIN inventory_map THEN inventory_map[key] ELSE None

Update(quantity, status, error_message) ==
    [kind |-> "update", quantity |-> quantity, status |-> status, error |-> error_message]

Escapes(e) == [kind |-> "raise", exc |-> e]

\* the try/except (ValueError, TypeError) around int(q), lines 232-242 and 285-295
Classify(q) ==
    LET n == PyInt(q)
    IN  IF n.exc = "none"
        THEN IF n.v > 0 THEN Update(Text(PyStr(q)), Text("In Stock"), None)
             ELSE Update(Text("0"), Text("Out of Stock"), None)
        ELSE IF n.exc \in {"ValueError", "TypeError"}
             THEN Update(Text(PyStr(q)), Text("Unknown Qty"), None)
             ELSE Escapes(n.exc)

NotInDump(product_id) == "Item " \o product_id \o " not in dump."

\* lines 229-247: the arguments the cache-hit path hands to update_appsheet_row
ResolveCached(inventory_map, product_id) ==
    LET q == DictGet(inventory_map, product_id)
    IN  IF q # None THEN Classify(q)
        ELSE Update(Text("0"), Text("Not Found"), Text(NotInDump(product_id)))

\* lines 283-300: the same decision on the fresh-fetch path
ResolveFetched(inventory_map, product_id) ==
    LET q == DictGet(inventory_map, product_id)
    IN  IF q # None THEN Classify(q)
        ELSE Update(Text("0"), Text("Not Found"), Text(NotInDump(product_id)))

----------------------------------------------------------------------------
(* INVENTORY_CACHE: a dict, kept as its entries in insertion order *)

NoEntry == [absent |-> TRUE]

Entry(store, timestamp, inventory_map) ==
    [store |-> store, timestamp |-> timestamp, inventory_map |-> inventory_map]

Keys(cache) == [i \in 1..Len(cache) |-> cache[i].store]

KeySet(cache) == {cache[i].store : i \in 1..Len(cache)}

\* INVENTORY_CACHE.get(store)
CacheGet(cache, store) ==
    IF store \in KeySet(cache)
    THEN cache[CHOOSE i \in 1..Len(cache) : cache[i].store = store]
    ELSE NoEntry

\* a store that kept the items of the replaced snapshot which the new one lacks
CachePutMerged(cache, entry) ==
    LET old == CacheGet(cache, entry.store)
        merged == IF old = NoEntry THEN entry.inventory_map
                  ELSE [k \in DOMAIN old.inventory_map \cup DOMAIN entry.inventory_map |->
                           IF k \in DOMAIN entry.inventory_map
                           THEN entry.inventory_map[k] ELSE old.inventory_map[k]]
        e == [entry EXCEPT !.inventory_map = merged]
    IN  IF entry.store \in KeySet(cache)
        THEN [i \in 1..Len(cache) |-> IF cache[i].store = entry.store THEN e ELSE cache[i]]
        ELSE Append(cache, e)

\* INVENTORY_CACHE[store] = entry: replaces in place, or appends a new key
CachePut(cache, entry) ==
    IF entry.store \in KeySet(cache)
    THEN [i \in 1..Len(cache) |-> IF cache[i].store = entry.store THEN entry ELSE cache[i]]
    ELSE Append(cache, entry)

\* del INVENTORY_CACHE[store]
CacheDel(cache, store) ==
    SelectSeq(cache, LAMBDA e : e.store # store)

\* an expiry test that spares the entry whose age is exactly the TTL
IsExpiredStrictly(entry, now) == now - entry.timestamp > CACHE_TTL

\* line 93: now - entry['timestamp'] >= CACHE_TTL
IsExpired(entry, now) == now - entry.timestamp >= CACHE_TTL

\* a lookup that took whatever entry is there
IsFreshAnyAge(entry, now) == entry # NoEntry

\* line 226: cache_entry and now - cache_entry["timestamp"] < CACHE_TTL
IsFresh(entry, now) == entry # NoEntry /\ now - entry.timestamp < CACHE_TTL

\* line 93: the stores the scan selects, in iteration order
ExpiredStores(cache, now) ==
    LET old == SelectSeq(cache, LAMBDA e : IsExpired(e, now))
    IN  [i \in 1..Len(old) |-> old[i].store]

----------------------------------------------------------------------------
(* The upstream inventory API's answers, as requests.post delivers them *)

Rec(id, q) == [isdict |-> TRUE, id |-> id, q |-> q]

NotARecord == [isdict |-> FALSE]

ListBody(items) == [shape |-> "list", items |-> items]

ErrorObject(detail) == [shape |-> "object", error |-> detail]

OtherObject == [shape |-> "object"]

NotJson == [shape |-> "invalid"]

Http(status_code, text, doc) ==
    [kind |-> "http", status_code |-> status_code, text |-> text, doc |-> doc]

\* line 275: {str(item.get('id')): item.get('q') for item in walgreens_data}
RECURSIVE IndexOf(_)
IndexOf(items) ==
    IF items = <<>> THEN Returned(<<>>)
    ELSE LET rest == IndexOf(SubSeq(items, 1, Len(items) - 1))
             item == items[Len(items)]
         IN  IF rest.exc # "none" THEN rest
             ELSE IF ~item.isdict THEN Raised("AttributeError")
             ELSE Returned([k \in DOMAIN rest.v \cup {PyStr(item.id)} |->
                               IF k = PyStr(item.id) THEN item.q ELSE rest.v[k]])

\* line 275, with its conditional: anything that is not a list gives {}
InventoryMap(doc) ==
    IF doc.shape = "list" THEN IndexOf(doc.items) ELSE Returned(<<>>)

ErrorUpdate(message) == Update(Text("0"), Text("Error"), Text(message))

\* lines 404-418
NonOkDetails(resp) ==
    "Walgreens API Error: " \o IntToStr(resp.status_code)
        \o (IF resp.text # "" THEN " - Details: " \o Prefix(resp.text, ERROR_BODY_LIMIT) ELSE "")

----------------------------------------------------------------------------
(* update_appsheet_row and the executor *)

\* lines 120-127: the row of the Edit payload
row_data_to_update(row_id, quantity, status, error_message) ==
    [key |-> row_id,
     Quantity |-> IF quantity # None THEN PyStr(quantity) ELSE "0",
     Status |-> IF status # None THEN PyStr(status) ELSE "",
     Error |-> IF error_message # None
               THEN Prefix(PyStr(error_message), ERROR_COLUMN_LIMIT)
               ELSE ""]

\* line 128
appsheet_payload(row_id, quantity, status, error_message) ==
    [Action |-> "Edit", Rows |-> <<row_data_to_update(row_id, quantity, status, error_message)>>]

Task(id, payload) == [id |-> id, payload |-> payload]

\* a submit that drops the task when another is already waiting
ExecutorSubmitDropping(q, task) == IF q # <<>> THEN q ELSE Append(q, task)

\* line 151: _APPSHEET_EXECUTOR.submit puts the task at the end of an unbounded queue
ExecutorSubmit(q, task) == Append(q, task)

\* an updater that always takes the early return
UpdateSkippedAlways == TRUE

\* lines 112-114: nothing is submitted without the AppSheet settings
UpdateSkipped == ~env.APPSHEET

----------------------------------------------------------------------------
(* Handler threads *)

NoResult == [kind |-> "none"]

NoResponse == [kind |-> "none"]

Idle ==
    [pc |-> "idle", validated |-> FALSE,
     row_id |-> None, product_id |-> "", store_id |-> "",
     pnow |-> 0, scan |-> <<>>, expired |-> <<>>, prune |-> "none",
     now |-> 0, entry |-> NoEntry, path |-> "none", resp |-> NoResponse,
     result |-> NoResult, ret |-> 0, code |-> 0,
     fetches |-> 0, updates |-> 0, task |-> 0]

\* truth value of a normalised field, as `not v` tests it (line 191)
Truthy(v) ==
    CASE v.t = "null" -> FALSE
      [] v.t = "str" -> v.cs # <<>>
      [] v.t = "int" -> v.v # 0
      [] OTHER -> TRUE

\* lines 177-182
NormalizeRow(raw) ==
    IF raw = None THEN None
    ELSE IF raw.t = "str" THEN JStr(Strip(raw.cs))
    ELSE raw

\* lines 184-185: str(raw).strip() if raw is not None else None
NormalizeStr(raw) ==
    IF raw = None THEN None
    ELSE IF raw.t = "str" THEN JStr(Strip(raw.cs))
    ELSE Text(PyStr(raw))

\* lines 157-161: the secret check; hmac.compare_digest on the header
SecretRejected(req) == env.WEBHOOK_SECRET /\ req.secret # "match"

\* a parsing block that asks only for the row and the product
ParseStatusWithoutStore(req) ==
    IF req.body.kind \in {"unparseable", "empty", "array"} THEN 400
    ELSE IF ~Truthy(NormalizeRow(req.body.row))
            \/ ~Truthy(NormalizeStr(req.body.product)) THEN 400
    ELSE 0

\* lines 164-207: the status the parsing block returns, 0 when it falls through
ParseStatus(req) ==
    IF req.body.kind = "unparseable" THEN 400
    ELSE IF req.body.kind = "empty" THEN 400
    ELSE IF req.body.kind = "array" THEN 400
    ELSE IF ~Truthy(NormalizeRow(req.body.row))
            \/ ~Truthy(NormalizeStr(req.body.product))
            \/ ~Truthy(NormalizeStr(req.body.store)) THEN 400
    ELSE 0

\* line 210
CredentialsMissing == ~env.WALGREENS

\* a return taken before the request is accepted for processing
Rejected(code) ==
    [Idle EXCEPT !.pc = "Responded", !.code = code]

\* what stays of a request once it is answered
Finished(rec, code) ==
    [Idle EXCEPT !.pc = "Responded", !.code = code, !.task = rec.task]

\* an exception that took the thread down with no answer
UnhandledHangs(rec) == [rec EXCEPT !.pc = "Crashed"]

\* an exception nothing in check_inventory catches: Flask answers 500
Unhandled(rec) == Finished(rec, 500)

----------------------------------------------------------------------------
(* Start of the process *)

\* lines 36-40: sys.exit(1) unless every required variable is set
Import ==
    /\ proc = "starting"
    /\ proc' = IF env.WALGREENS /\ env.APPSHEET THEN "serving" ELSE "exited"
    /\ UNCHANGED <<env, clock, INVENTORY_CACHE, h, served, queue, running, sink, lastPut, pure>>

Tick ==
    /\ proc = "serving"
    /\ clock + TickStep <= MaxTicks * TickStep
    /\ clock' = clock + TickStep
    /\ UNCHANGED <<env, proc, INVENTORY_CACHE, h, served, queue, running, sink, lastPut, pure>>

----------------------------------------------------------------------------
(* check_inventory *)

\* the accepted request, entering prune_cache: line 92 reads the clock and line 93
\* starts iterating over the dict
Accepted(req) ==
    [Idle EXCEPT !.pc = "PruneScan", !.validated = TRUE,
                 !.row_id = NormalizeRow(req.body.row),
                 !.product_id = PyStr(NormalizeStr(req.body.product)),
                 !.store_id = PyStr(NormalizeStr(req.body.store)),
                 !.pnow = clock, !.scan = Keys(INVENTORY_CACHE)]

\* lines 155-223, up to the start of prune_cache
Begin(req) ==
    IF env.WEBHOOK_SECRET /\ req.secret = "nonascii" THEN Unhandled(Idle)
    ELSE IF SecretRejected(req) THEN Rejected(401)
    ELSE IF ParseStatus(req) # 0 THEN Rejected(ParseStatus(req))
    ELSE IF CredentialsMissing
         THEN [Accepted(req) EXCEPT
                  !.pc = "Resolved", !.validated = FALSE, !.ret = 500, !.pnow = 0, !.scan = <<>>,
                  !.result = ErrorUpdate("Walgreens API credentials missing in server configuration.")]
    ELSE Accepted(req)

\* a request arrives; the workload says which requests, how many in all, and how many
\* sink updates may still be pending when it arrives
Receive(t, requests, limit, backlog) ==
    /\ proc = "serving"
    /\ h[t].pc \in {"idle", "Responded"}
    /\ \A u \in Threads : u < t => h[u].pc \notin {"idle", "Responded"}
    /\ served < limit
    /\ Len(queue) + Cardinality(running) <= backlog
    /\ \E req \in requests :
          h' = [h EXCEPT ![t] = Begin(req)]
    /\ served' = served + 1
    /\ UNCHANGED <<env, proc, clock, INVENTORY_CACHE, queue, running, sink, lastPut, pure>>

\* line 93 completes: a dict that changed under the iteration raises RuntimeError,
\* which line 97 catches, and the pass ends there
PruneScan(t) ==
    /\ h[t].pc = "PruneScan"
    /\ LET aborted == Keys(INVENTORY_CACHE) # h[t].scan
           expired == IF aborted THEN <<>> ELSE ExpiredStores(INVENTORY_CACHE, h[t].pnow)
       IN  h' = [h EXCEPT ![t].pc = IF expired = <<>> THEN "Lookup" ELSE "PruneDelete",
                          ![t].prune = IF aborted THEN "aborted"
                                       ELSE IF expired = <<>> THEN "complete" ELSE "deleting",
                          ![t].expired = expired,
                          ![t].pnow = IF expired = <<>> THEN 0 ELSE h[t].pnow,
                          ![t].scan = <<>>]
    /\ UNCHANGED <<env, proc, clock, INVENTORY_CACHE, served, queue, running, sink, lastPut, pure>>

\* lines 94-95, one iteration: del raises KeyError when the key is gone, which ends the pass
PruneDelete(t) ==
    /\ h[t].pc = "PruneDelete"
    /\ LET store == Head(h[t].expired)
           present == store \in KeySet(INVENTORY_CACHE)
           rest == IF present THEN Tail(h[t].expired) ELSE <<>>
       IN  /\ INVENTORY_CACHE' = IF present THEN CacheDel(INVENTORY_CACHE, store) ELSE INVENTORY_CACHE
           /\ h' = [h EXCEPT ![t].expired = rest,
                             ![t].prune = IF ~present THEN "aborted"
                                          ELSE IF rest = <<>> THEN "complete" ELSE "deleting",
                             ![t].pnow = IF rest = <<>> THEN 0 ELSE h[t].pnow,
                             ![t].pc = IF rest = <<>> THEN "Lookup" ELSE "PruneDelete"]
    /\ UNCHANGED <<env, proc, clock, served, queue, running, sink, lastPut, pure>>

\* a lookup whose hit restamps the entry with the time of the hit
LookupTouching(t) ==
    /\ h[t].pc = "Lookup"
    /\ LET now == clock
           cache_entry == CacheGet(INVENTORY_CACHE, h[t].store_id)
           hit == [h[t] EXCEPT !.now = now, !.entry = cache_entry, !.path = "hit"]
           r == ResolveCached(cache_entry.inventory_map, h[t].product_id)
       IN  /\ h' = [h EXCEPT ![t] =
                       IF IsFresh(cache_entry, now)
                       THEN IF r.kind = "update"
                            THEN [hit EXCEPT !.pc = "Resolved", !.result = r, !.ret = 200]
                            ELSE Unhandled(hit)
                       ELSE [h[t] EXCEPT !.pc = "CacheMissFetching", !.now = now, !.path = "miss",
                                         !.fetches = h[t].fetches + 1]]
           /\ INVENTORY_CACHE' =
                 IF IsFresh(cache_entry, now)
                 THEN CachePut(INVENTORY_CACHE, [cache_entry EXCEPT !.timestamp = now])
                 ELSE INVENTORY_CACHE
    /\ UNCHANGED <<env, proc, clock, served, queue, running, sink, lastPut, pure>>

\* lines 224-248 on a hit (up to the call of update_appsheet_row), lines 224-268 on a miss
Lookup(t) ==
    /\ h[t].pc = "Lookup"
    /\ LET now == clock
           cache_entry == CacheGet(INVENTORY_CACHE, h[t].store_id)
           hit == [h[t] EXCEPT !.now = now, !.entry = cache_entry, !.path = "hit"]
           r == ResolveCached(cache_entry.inventory_map, h[t].product_id)
       IN  h' = [h EXCEPT ![t] =
                    IF IsFresh(cache_entry, now)
                    THEN IF r.kind = "update"
                         THEN [hit EXCEPT !.pc = "Resolved", !.result = r, !.ret = 200]
                         ELSE Unhandled(hit)
                    ELSE [h[t] EXCEPT !.pc = "CacheMissFetching", !.now = now, !.path = "miss",
                                      !.fetches = h[t].fetches + 1]]
    /\ UNCHANGED <<env, proc, clock, INVENTORY_CACHE, served, queue, running, sink, lastPut, pure>>

\* str(e) for the exceptions the processing block can see
ExcText(exc) ==
    CASE exc = "OverflowError" -> "cannot convert float infinity to integer"
      [] exc = "AttributeError" -> "'int' object has no attribute 'get'"
      [] OTHER -> exc

\* lines 271-301 and 391-402: what a 200 answer leads to
\* [put: the snapshot stored, or NoEntry; result: the update, or the escaping exception]
OnOk(resp, store_id, product_id) ==
    IF resp.doc.shape = "invalid"
    THEN [put |-> NoEntry, result |-> ErrorUpdate("Failed to decode Walgreens API response.")]
    ELSE LET m == InventoryMap(resp.doc)
         IN  IF m.exc # "none"
             THEN [put |-> NoEntry,
                   result |-> ErrorUpdate("Error processing Walgreens data: " \o ExcText(m.exc))]
             ELSE LET r == ResolveFetched(m.v, product_id)
                  IN  [put |-> Entry(store_id, clock, m.v),
                       result |-> IF r.kind = "update" THEN r
                                  ELSE ErrorUpdate("Error processing Walgreens data: " \o ExcText(r.exc))]

\* lines 261-438: the outcome of the upstream call
OnResponse(resp, store_id, product_id) ==
    CASE resp.kind = "timeout" ->
           [put |-> NoEntry, result |-> ErrorUpdate("Walgreens API request timed out.")]
      [] resp.kind = "transport" ->
           [put |-> NoEntry, result |-> ErrorUpdate("Walgreens API Request Failed: " \o resp.text)]
      [] resp.kind = "exception" ->
           \* line 437 reads e, which is unbound there: the handler itself raises
           [put |-> NoEntry, result |-> Escapes("UnboundLocalError")]
      [] resp.kind = "http" /\ resp.status_code = 200 ->
           OnOk(resp, store_id, product_id)
      [] resp.kind = "http" /\ resp.status_code # 200 ->
           [put |-> NoEntry, result |-> ErrorUpdate(NonOkDetails(resp))]

FetchReturn(t, responses) ==
    /\ h[t].pc = "CacheMissFetching"
    /\ \E resp \in responses :
          LET o == OnResponse(resp, h[t].store_id, h[t].product_id)
              got == [h[t] EXCEPT !.resp = resp]
          IN  /\ h' = [h EXCEPT ![t] =
                          IF o.result.kind = "update"
                          THEN [got EXCEPT !.pc = "Resolved", !.result = o.result, !.ret = 200]
                          ELSE Unhandled(got)]
              /\ INVENTORY_CACHE' =
                    IF o.put # NoEntry THEN CachePut(INVENTORY_CACHE, o.put) ELSE INVENTORY_CACHE
              /\ lastPut' =
                    IF o.put # NoEntry
                    THEN [lastPut EXCEPT ![o.put.store] =
                             [entry |-> o.put, puts |-> lastPut[o.put.store].puts + 1]]
                    ELSE lastPut
    /\ UNCHANGED <<env, proc, clock, served, queue, running, sink, pure>>

\* update_appsheet_row, lines 101-151
Submit(t) ==
    /\ h[t].pc = "Resolved"
    /\ IF UpdateSkipped
       THEN /\ h' = [h EXCEPT ![t] = [Idle EXCEPT
                                           !.pc = "SinkSubmitted", !.ret = h[t].ret,
                                           !.validated = h[t].validated]]
            /\ UNCHANGED <<queue, sink>>
       ELSE LET r == h[t].result
                id == sink.submitted + 1
            IN  /\ queue' = ExecutorSubmit(queue,
                                Task(id, appsheet_payload(h[t].row_id, r.quantity, r.status, r.error)))
                /\ sink' = [sink EXCEPT !.submitted = id]
                /\ h' = [h EXCEPT ![t] = [Idle EXCEPT
                                               !.pc = "SinkSubmitted", !.ret = h[t].ret,
                                               !.validated = h[t].validated,
                                               !.task = id, !.updates = h[t].updates + 1]]
    /\ UNCHANGED <<env, proc, clock, INVENTORY_CACHE, served, running, lastPut, pure>>

\* a handler that waited for its update to be sent
ReturnAfterUpdate(t) ==
    /\ h[t].pc = "SinkSubmitted"
    /\ \A i \in 1..Len(queue) : queue[i].id # h[t].task
    /\ \A task \in running : task.id # h[t].task

\* the handler returns as soon as submit has returned: lines 219, 248, 301, 442
ReturnReady(t) == h[t].pc = "SinkSubmitted"

Respond(t) ==
    /\ ReturnReady(t)
    /\ h' = [h EXCEPT ![t] = Finished(h[t], h[t].ret)]
    /\ UNCHANGED <<env, proc, clock, INVENTORY_CACHE, served, queue, running, sink, lastPut, pure>>

----------------------------------------------------------------------------
(* The pool workers running _send_update, lines 130-149 *)

SinkOutcomes == {"2xx", "404", "5xx", "timeout", "transport", "exception"}

\* a free worker takes the oldest queued task and starts _send_update
WorkerTake ==
    /\ queue # <<>>
    /\ Cardinality(running) < MAX_WORKERS
    /\ running' = running \cup {Head(queue)}
    /\ queue' = Tail(queue)
    /\ UNCHANGED <<env, proc, clock, INVENTORY_CACHE, h, served, sink, lastPut, pure>>

\* lines 134-149: how _send_update ends for each outcome of the POST; every branch
\* only logs, and the function returns normally
SinkResult(outcome) == IF outcome = "2xx" THEN "completed" ELSE "failed"

\* one POST as the sink sees it
Posted(task, outcome) ==
    [id |-> task.id, key |-> task.payload.Rows[1].key,
     Status |-> task.payload.Rows[1].Status, result |-> SinkResult(outcome)]

\* a worker that puts a failed update back in the queue
WorkerPostRetrying(outcomes) ==
    /\ \E task \in running, outcome \in outcomes :
          /\ running' = running \ {task}
          /\ queue' = IF SinkResult(outcome) = "failed" THEN Append(queue, task) ELSE queue
          /\ sink' = IF sink.observed
                     THEN [sink EXCEPT !.log = Append(sink.log, Posted(task, outcome))]
                     ELSE sink
    /\ UNCHANGED <<env, proc, clock, INVENTORY_CACHE, h, served, lastPut, pure>>

\* lines 134-149: the POST goes out and returns or raises; every outcome is only
\* logged, and the worker is free again
WorkerPost(outcomes) ==
    /\ \E task \in running, outcome \in outcomes :
          /\ running' = running \ {task}
          /\ sink' = IF sink.observed
                     THEN [sink EXCEPT !.log = Append(sink.log, Posted(task, outcome))]
                     ELSE sink
    /\ UNCHANGED <<env, proc, clock, INVENTORY_CACHE, h, served, queue, lastPut, pure>>

----------------------------------------------------------------------------
(* Workloads: the requests and upstream answers the environment may produce *)

Body(row, product, store) == [kind |-> "object", row |-> row, product |-> product, store |-> store]

Request(secret, body) == [secret |-> secret, body |-> body]

BadBodies ==
    {[kind |-> "unparseable"], [kind |-> "empty"], [kind |-> "array"],
     Body(None, JStr(<<"A">>), JStr(<<"S1">>)),
     Body(JStr(<<" ">>), JStr(<<"A">>), JStr(<<"S1">>)),
     Body(JInt(0), JStr(<<"A">>), JStr(<<"S1">>)),
     Body(JStr(<<"r1">>), None, JStr(<<"S1">>)),
     Body(JStr(<<"r1">>), JStr(<<"A">>), None),
     Body(JStr(<<"r1">>), JStr(<<"A">>), JStr(<<" ", " ">>))}

GoodBodies ==
    {Body(row, JStr(<<" ", "A">>), store) :
        row \in {JStr(<<"r1", " ">>)},
        store \in {JStr(<<"S1">>), JStr(<<" ", "S2", " ">>)}}

Requests ==
    {Request(secret, body) : secret \in {"match", "mismatch", "nonascii"},
                             body \in BadBodies \cup GoodBodies}

ListBodies ==
    {ListBody(<<>>),
     ListBody(<<Rec(JStr(<<"A">>), JInt(5))>>),
     ListBody(<<Rec(JStr(<<"A">>), None)>>),
     ListBody(<<Rec(JStr(<<"A">>), JInf)>>)}

Responses ==
    {[kind |-> "timeout"], [kind |-> "transport", text |-> "connection reset"],
     [kind |-> "exception"],
     Http(200, "", NotJson), Http(200, "", ErrorObject(Text("quota"))),
     Http(200, "", OtherObject), Http(200, "", ListBody(<<NotARecord>>)),
     Http(201, "[{\"id\": \"A\", \"q\": 5}]", ListBody(<<Rec(JStr(<<"A">>), JInt(5))>>)),
     Http(503, "unavailable", NotJson)}
    \cup {Http(200, "", b) : b \in ListBodies}

----------------------------------------------------------------------------
(* Specification *)

Off == [stage |-> "off"]

\* the state once the module's top level starts to run
Loaded ==
    /\ env \in [WEBHOOK_SECRET : BOOLEAN, WALGREENS : BOOLEAN, APPSHEET : BOOLEAN]
    /\ proc = "starting"
    /\ clock = 0
    /\ INVENTORY_CACHE = <<>>
    /\ h = [t \in Threads |-> Idle]
    /\ served = 0
    /\ queue = <<>>
    /\ running = {}
    /\ sink \in {[submitted |-> 0, observed |-> b, log |-> <<>>] : b \in BOOLEAN}
    /\ lastPut = [s \in Stores |-> [entry |-> NoEntry, puts |-> 0]]

\* the POSTs are recorded only in the runs that observe the sink
Init ==
    /\ Loaded
    /\ pure = Off
    /\ ~sink.observed

\* one synchronous server worker (the gunicorn command of line 465): requests are
\* handled one at a time, with every kind of request and of upstream answer
Next ==
    \/ Import
    \/ Tick
    \/ Receive(1, Requests, MaxRequests, MaxBacklog)
    \/ PruneScan(1)
    \/ PruneDelete(1)
    \/ Lookup(1)
    \/ FetchReturn(1, Responses)
    \/ Submit(1)
    \/ Respond(1)
    \/ WorkerTake
    \/ WorkerPost(SinkOutcomes)

Spec == Init /\ [][Next]_vars

\* a threaded server (waitress, or Flask's own server, lines 455-471): two requests
\* are handled at a time, for one store
ThreadedRequests ==
    {Request(secret, Body(JStr(<<"r1">>), JStr(<<"A">>), JStr(<<"S1">>))) :
        secret \in {"match", "mismatch"}}

ThreadedResponses ==
    {[kind |-> "timeout"], Http(200, "", ListBody(<<>>)),
     Http(200, "", ListBody(<<Rec(JStr(<<"A">>), JInt(5))>>))}

NextThreaded ==
    \/ Import
    \/ Tick
    \/ \E t \in Threads : Receive(t, ThreadedRequests, MaxConcurrent, MaxBacklog)
    \/ \E t \in Threads : PruneScan(t)
    \/ \E t \in Threads : PruneDelete(t)
    \/ \E t \in Threads : Lookup(t)
    \/ \E t \in Threads : FetchReturn(t, ThreadedResponses)
    \/ \E t \in Threads : Submit(t)
    \/ \E t \in Threads : Respond(t)
    \/ WorkerTake
    \/ WorkerPost({"2xx", "timeout"})

\* the deployment of this scenario sets every variable, the optional secret included
InitThreaded ==
    /\ Init
    /\ env = [WEBHOOK_SECRET |-> TRUE, WALGREENS |-> TRUE, APPSHEET |-> TRUE]

SpecThreaded == InitThreaded /\ [][NextThreaded]_vars

\* a burst of requests for one item of one store, with a prompt upstream
BurstRequests == {Request("match", Body(JStr(<<"r1">>), JStr(<<"A">>), JStr(<<"S1">>)))}

BurstResponses == {Http(200, "", ListBody(<<Rec(JStr(<<"A">>), JInt(5))>>))}

NextBurst ==
    \/ Import
    \/ Tick
    \/ Receive(1, BurstRequests, MaxBurst, MaxBurst)
    \/ PruneScan(1)
    \/ PruneDelete(1)
    \/ Lookup(1)
    \/ FetchReturn(1, BurstResponses)
    \/ Submit(1)
    \/ Respond(1)
    \/ WorkerTake
    \/ WorkerPost({"2xx", "5xx", "timeout"})

InitBurst ==
    /\ Init
    /\ env = [WEBHOOK_SECRET |-> FALSE, WALGREENS |-> TRUE, APPSHEET |-> TRUE]

SpecBurst == InitBurst /\ [][NextBurst]_vars

\* two threads and two stores, with a prompt upstream: the prune passes
PruneRequests ==
    {Request("match", Body(JStr(<<"r1">>), JStr(<<"A">>), JStr(<<store>>))) : store \in Stores}

NextPrune ==
    \/ Import
    \/ Tick
    \/ \E t \in Threads : Receive(t, PruneRequests, MaxConcurrent, MaxBacklog)
    \/ \E t \in Threads : PruneScan(t)
    \/ \E t \in Threads : PruneDelete(t)
    \/ \E t \in Threads : Lookup(t)
    \/ \E t \in Threads : FetchReturn(t, BurstResponses)
    \/ \E t \in Threads : Submit(t)
    \/ \E t \in Threads : Respond(t)
    \/ WorkerTake
    \/ WorkerPost({"2xx"})

SpecPrune == InitBurst /\ [][NextPrune]_vars

\* the pool seen from the sink: a few requests for one row, every outcome of the POST
NextPool ==
    \/ Import
    \/ Tick
    \/ Receive(1, BurstRequests, MaxRequests, MaxRequests)
    \/ PruneScan(1)
    \/ PruneDelete(1)
    \/ Lookup(1)
    \/ FetchReturn(1, ThreadedResponses)
    \/ Submit(1)
    \/ Respond(1)
    \/ WorkerTake
    \/ WorkerPost(SinkOutcomes)

InitPool ==
    /\ Loaded
    /\ pure = Off
    /\ sink.observed
    /\ env = [WEBHOOK_SECRET |-> FALSE, WALGREENS |-> TRUE, APPSHEET |-> TRUE]

\* a free worker takes the next task, and the POST returns or times out (line 134)
PoolFairness ==
    /\ WF_vars(WorkerTake)
    /\ WF_vars(WorkerPost(SinkOutcomes))

SpecPool == InitPool /\ [][NextPool]_vars /\ PoolFairness

\* the handler thread is scheduled and the upstream call returns or times out (line
\* 267); nothing is assumed of the arrival of requests, of the clock, or of the pool
Fairness ==
    /\ WF_vars(PruneScan(1))
    /\ WF_vars(PruneDelete(1))
    /\ WF_vars(Lookup(1))
    /\ WF_vars(FetchReturn(1, Responses))
    /\ WF_vars(Submit(1))
    /\ WF_vars(Respond(1))

\* every kind of request and of upstream answer, for one store
LiveRequests ==
    {req \in Requests : req.body \in GoodBodies => req.body.store = JStr(<<"S1">>)}

NextLive ==
    \/ Import
    \/ Tick
    \/ Receive(1, LiveRequests, MaxRequests, MaxBacklog)
    \/ PruneScan(1)
    \/ PruneDelete(1)
    \/ Lookup(1)
    \/ FetchReturn(1, Responses)
    \/ Submit(1)
    \/ Respond(1)
    \/ WorkerTake
    \/ WorkerPost(SinkOutcomes)

SpecLive == Init /\ [][NextLive]_vars /\ Fairness

\* the same requests and answers with nothing assumed of the scheduling
SpecIntake == Init /\ [][NextLive]_vars

\* two threads on one store while the upstream lists the item with any kind of
\* quantity: one request fetches an index, the next is resolved from the same snapshot
PathsResponses == {Http(200, "", b) : b \in ListBodies}

NextPaths ==
    \/ Import
    \/ Tick
    \/ \E t \in Threads : Receive(t, BurstRequests, MaxConcurrent, MaxBacklog)
    \/ \E t \in Threads : PruneScan(t)
    \/ \E t \in Threads : PruneDelete(t)
    \/ \E t \in Threads : Lookup(t)
    \/ \E t \in Threads : FetchReturn(t, PathsResponses)
    \/ \E t \in Threads : Submit(t)
    \/ \E t \in Threads : Respond(t)
    \/ WorkerTake
    \/ WorkerPost({"2xx"})

SpecPaths == InitBurst /\ [][NextPaths]_vars

----------------------------------------------------------------------------
(* Resolution on its own: one index, one item, resolved on either path *)

PureQuantities ==
    {None, JInt(5), JInt(12), JInt(0), JInt(-1),
     JStr(<<"7">>), JStr(<<" ", "7">>), JStr(<<"-", "3">>), JStr(<<"a", "b", "c">>), JStr(<<>>),
     JFloat(FALSE, 2, 5), JFloat(FALSE, 0, 5), JFloat(TRUE, 1, 5),
     JInf, JNan, JTrue, JEmptyList}

PureItems == {"A", "B"}

PureIndexes == UNION {[ids -> PureQuantities] : ids \in SUBSET PureItems}

Configured == [WEBHOOK_SECRET |-> TRUE, WALGREENS |-> TRUE, APPSHEET |-> TRUE]

InitResolve ==
    /\ Loaded
    /\ env = Configured
    /\ ~sink.observed
    /\ \E m \in PureIndexes, id \in PureItems :
          pure = [stage |-> "input", inventory_map |-> m, product_id |-> id,
                  cached |-> NoResult, fetched |-> NoResult]

\* lines 229-247 applied to the index
ResolveOnHit ==
    /\ pure.stage = "input"
    /\ pure' = [pure EXCEPT !.stage = "hit",
                            !.cached = ResolveCached(pure.inventory_map, pure.product_id)]
    /\ UNCHANGED <<env, proc, clock, INVENTORY_CACHE, h, served, queue, running, sink, lastPut>>

\* lines 283-300 applied to the same index
ResolveOnFetch ==
    /\ pure.stage = "hit"
    /\ pure' = [pure EXCEPT !.stage = "both",
                            !.fetched = ResolveFetched(pure.inventory_map, pure.product_id)]
    /\ UNCHANGED <<env, proc, clock, INVENTORY_CACHE, h, served, queue, running, sink, lastPut>>

NextResolve ==
    \/ ResolveOnHit
    \/ ResolveOnFetch

SpecResolve == InitResolve /\ [][NextResolve]_vars

----------------------------------------------------------------------------
(* update_appsheet_row on its own: the payload built from its four arguments *)

RECURSIVE Fill(_, _)
Fill(c, n) ==
    IF n <= 0 THEN ""
    ELSE LET half == Fill(c, n \div 2)
         IN  half \o half \o (IF n % 2 = 1 THEN c ELSE "")

\* an error text of n characters: "a" up to the column's limit, "b" beyond it
ErrorText(n) ==
    Fill("a", IF n < ERROR_COLUMN_LIMIT THEN n ELSE ERROR_COLUMN_LIMIT)
        \o Fill("b", n - ERROR_COLUMN_LIMIT)

PayloadErrors ==
    {None, Text("")}
        \cup {Text(ErrorText(n)) : n \in (ERROR_COLUMN_LIMIT - MaxPad)..(ERROR_COLUMN_LIMIT + MaxPad)}

PayloadQuantities == {None, Text("0"), Text("12"), Text(""), JInt(7)}

PayloadStatuses == {None, Text("In Stock"), Text("")}

PayloadRows == {JStr(<<"r1">>), JInt(7)}

InitPayload ==
    /\ Loaded
    /\ env = Configured
    /\ ~sink.observed
    /\ \E row_id \in PayloadRows, quantity \in PayloadQuantities,
          status \in PayloadStatuses, error_message \in PayloadErrors :
          pure = [stage |-> "args", row_id |-> row_id, quantity |-> quantity,
                  status |-> status, error_message |-> error_message, payload |-> NoResult]

\* lines 120-128
BuildPayload ==
    /\ pure.stage = "args"
    /\ pure' = [pure EXCEPT !.stage = "built",
                            !.payload = appsheet_payload(pure.row_id, pure.quantity,
                                                         pure.status, pure.error_message)]
    /\ UNCHANGED <<env, proc, clock, INVENTORY_CACHE, h, served, queue, running, sink, lastPut>>

NextPayload == BuildPayload

SpecPayload == InitPayload /\ [][NextPayload]_vars

----------------------------------------------------------------------------
(* Claims *)

\* thread t hands its response to the caller in this step
Answers(t) == h'[t].pc = "Responded" /\ (h[t].pc # "Responded" \/ served' # served)

\* C1: every request that passed the secret check and body validation, with the
\* upstream credentials configured, is answered 200 whatever happens afterwards
\* (cache hit, fetch success, any fetch failure, any unexpected exception)
C1_Always200 ==
    [][\A t \in Threads : (h[t].validated /\ Answers(t)) => h'[t].code = 200]_vars

\* the fetch failures named by C2 and C3
FetchFailed(resp) ==
    \/ resp.kind \in {"timeout", "transport"}
    \/ resp.kind = "http" /\ ~(200 <= resp.status_code /\ resp.status_code < 300)
    \/ resp.kind = "http" /\ resp.status_code = 200 /\ resp.doc.shape # "list"
    \/ resp.kind = "http" /\ resp.status_code = 200 /\ resp.doc.shape = "list"
         /\ \E i \in 1..Len(resp.doc.items) : ~resp.doc.items[i].isdict

\* C2: after a failed fetch the handler submits, for the request's row, an update
\* with status "Error" and a non-empty error detail
C2_FailedFetchReportsError ==
    [][\A t \in Threads :
          (h[t].pc = "Resolved" /\ h[t].path = "miss" /\ FetchFailed(h[t].resp)
              /\ h'[t].pc = "SinkSubmitted")
          => /\ Len(queue') = Len(queue) + 1
             /\ LET row == queue'[Len(queue')].payload.Rows[1]
                IN  row.key = h[t].row_id /\ row.Status = "Error" /\ row.Error # ""]_vars

\* C3: a fetch that failed leaves the cache entry of the request's store as it was
C3_FailedFetchKeepsCache ==
    [][\A t \in Threads :
          (h[t].pc = "CacheMissFetching" /\ h'[t].pc = "Resolved" /\ FetchFailed(h'[t].resp))
          => CacheGet(INVENTORY_CACHE', h[t].store_id) = CacheGet(INVENTORY_CACHE, h[t].store_id)]_vars

\* the index a resolved request was resolved against: the cached one on a hit, the
\* one just built from the answer on a miss
HasIndex(t) ==
    \/ h[t].path = "hit"
    \/ h[t].path = "miss" /\ h[t].resp.kind = "http" /\ h[t].resp.status_code = 200
         /\ h[t].resp.doc.shape = "list" /\ InventoryMap(h[t].resp.doc).exc = "none"

IndexUsed(t) ==
    IF h[t].path = "hit" THEN h[t].entry.inventory_map ELSE InventoryMap(h[t].resp.doc).v

\* C4: an item present in the index with a null quantity is reported Out of Stock
\* with quantity "0", on the cache-hit path and on the fresh-fetch path
C4_NullIsOutOfStock ==
    \A t \in Threads :
        (h[t].pc = "Resolved" /\ HasIndex(t)
            /\ h[t].product_id \in DOMAIN IndexUsed(t)
            /\ IndexUsed(t)[h[t].product_id] = None)
        => h[t].result.status = Text("Out of Stock") /\ h[t].result.quantity = Text("0")

\* what C5 says resolution gives for an item that is absent or has a non-null quantity
ClaimedStatus(inventory_map, product_id) ==
    IF product_id \notin DOMAIN inventory_map THEN "Not Found"
    ELSE LET n == PyInt(inventory_map[product_id])
         IN  IF n.exc # "none" THEN "Unknown Qty"
             ELSE IF n.v > 0 THEN "In Stock" ELSE "Out of Stock"

ClaimedQuantity(inventory_map, product_id) ==
    IF ClaimedStatus(inventory_map, product_id) \in {"In Stock", "Unknown Qty"}
    THEN PyStr(inventory_map[product_id]) ELSE "0"

EndsWith(s, suffix) ==
    Len(s) >= Len(suffix) /\ SubSeq(s, Len(s) - Len(suffix) + 1, Len(s)) = suffix

AsClaimed(r, inventory_map, product_id) ==
    /\ r.kind = "update"
    /\ r.status = Text(ClaimedStatus(inventory_map, product_id))
    /\ r.quantity = Text(ClaimedQuantity(inventory_map, product_id))
    /\ product_id \notin DOMAIN inventory_map
          => r.error # None /\ EndsWith(PyStr(r.error), product_id \o " not in dump.")

\* C5: absent -> Not Found, "0", an error ending in "<item_id> not in dump."; integer > 0 -> In Stock,
\* str(q); integer <= 0 -> Out of Stock, "0"; no integer -> Unknown Qty, str(q)
C5_ResolutionTable ==
    (pure.stage = "both"
        /\ (pure.product_id \in DOMAIN pure.inventory_map
               => pure.inventory_map[pure.product_id] # None))
    => /\ AsClaimed(pure.cached, pure.inventory_map, pure.product_id)
       /\ AsClaimed(pure.fetched, pure.inventory_map, pure.product_id)

\* C6: a request resolved from the cache was resolved against a snapshot younger than
\* CACHE_TTL at its lookup, whatever became of the prune pass that came before
C6_HitOnlyWhenFresh ==
    \A t \in Threads :
        (h[t].pc = "Resolved" /\ h[t].path = "hit")
        => /\ h[t].entry # NoEntry
           /\ h[t].entry.store = h[t].store_id
           /\ h[t].now - h[t].entry.timestamp < CACHE_TTL

\* a hit that followed a prune pass ended by its own exception
C6_HitAfterAbortedPrune ==
    \E t \in Threads : h[t].pc = "Resolved" /\ h[t].path = "hit" /\ h[t].prune = "aborted"

\* C7: a lookup for a store whose last stored snapshot is younger than CACHE_TTL takes
\* the cache-hit path with that snapshot; a lookup that finds an entry of age CACHE_TTL
\* or more goes to a new fetch
C7_GetAfterPut ==
    [][\A t \in Threads :
          (h[t].pc = "Lookup" /\ h'[t].pc # "Lookup")
          => LET last == lastPut[h[t].store_id].entry
                 found == CacheGet(INVENTORY_CACHE, h[t].store_id)
             IN  /\ (last # NoEntry /\ clock - last.timestamp < CACHE_TTL)
                       => \/ h'[t].pc = "Resolved" /\ h'[t].path = "hit" /\ h'[t].entry = last
                          \/ h'[t].pc = "Responded"
                 /\ (found # NoEntry /\ clock - found.timestamp >= CACHE_TTL)
                       => h'[t].pc = "CacheMissFetching"]_vars

\* a handler thread between the arrival of its request and its answer
InFlight(t) == h[t].pc \notin {"idle", "Responded"}

HandlerStep(t) ==
    \/ PruneScan(t)
    \/ PruneDelete(t)
    \/ Lookup(t)
    \/ FetchReturn(t, ThreadedResponses)
    \/ Submit(t)
    \/ Respond(t)

\* C8: of two requests for one store that both miss and both fetch, each fetches at
\* most once, neither is ever left without a next step, and once both are through
\* the cache holds for the store exactly the snapshot stored last, whole
C8_LastWriterWins ==
    /\ \A t \in Threads : h[t].fetches <= 1
    /\ \A t \in Threads : InFlight(t) => ENABLED HandlerStep(t)
    /\ \A s \in Stores :
          (/\ served = 2
           /\ lastPut[s].puts = 2
           /\ \A t \in Threads :
                 h[t].pc \notin {"PruneScan", "PruneDelete", "Lookup", "CacheMissFetching"})
          => /\ Cardinality({i \in 1..Len(INVENTORY_CACHE) : INVENTORY_CACHE[i].store = s}) = 1
             /\ CacheGet(INVENTORY_CACHE, s) = lastPut[s].entry

\* both requests missed at the same time and fetched different indexes
C8_TwoMissesStored ==
    /\ served = 2
    /\ \A t \in Threads : h[t].pc = "Resolved" /\ h[t].path = "miss" /\ h[t].store_id = "S1"
    /\ lastPut["S1"].puts = 2
    /\ InventoryMap(h[1].resp.doc).v # InventoryMap(h[2].resp.doc).v

\* C9: every request that has arrived is answered
C9_EveryRequestAnswered ==
    \A t \in Threads : InFlight(t) ~> (h[t].pc = "Responded")

\* a request answered after its update went to the pool
C9_AnsweredAfterSubmit ==
    \E t \in Threads : h[t].pc = "Responded" /\ h[t].code = 200 /\ h[t].task > 0

\* C10: once the update is handed to the pool the handler can answer at once, with
\* the answer it had already chosen, wherever the update is and however it ends
C10_AnswerDoesNotWait ==
    \A t \in Threads :
        /\ h[t].pc = "SinkSubmitted" => (ENABLED Respond(t)) /\ h[t].ret = 200
        /\ (h[t].pc = "Responded" /\ h[t].task > 0) => h[t].code = 200

\* an answered request whose update is still queued behind MAX_WORKERS running ones
C10_AnsweredWhileQueued ==
    \E t \in Threads :
        /\ h[t].pc = "Responded"
        /\ \E i \in 1..Len(queue) : queue[i].id = h[t].task
        /\ Cardinality(running) = MAX_WORKERS

\* the updates handed to the pool so far, and those the sink has seen to their end
SubmittedIds == 1..sink.submitted

Posts(log, id) == {i \in 1..Len(log) : log[i].id = id}

Ended(id) ==
    /\ Cardinality(Posts(sink.log, id)) = 1
    /\ \A i \in Posts(sink.log, id) : sink.log[i].result \in {"completed", "failed"}
    /\ \A i \in 1..Len(queue) : queue[i].id # id
    /\ \A task \in running : task.id # id

\* C11: every update handed to the pool is eventually executed by a worker and ends
\* completed or failed; none stays pending for ever
C11_UpdateEventuallyEnds ==
    \A id \in 1..(MaxRequests + 1) : (id \in SubmittedIds) ~> Ended(id)

\* an update that ended failed after an upstream fetch that failed too
C11_FailedAfterFailedFetch ==
    \E i \in 1..Len(sink.log) :
        sink.log[i].result = "failed" /\ sink.log[i].Status = "Error" /\ Ended(sink.log[i].id)

\* C12: a POST, failed or not, is made once per update and touches nothing but the
\* pool: no retry is queued, and the handlers, the cache and the count of requests
\* are as they were
C12_FailedWriteIsSilent ==
    [][sink'.log # sink.log
          => /\ \A id \in SubmittedIds : Cardinality(Posts(sink'.log, id)) <= 1
             /\ queue' = queue
             /\ running' \subseteq running
             /\ h' = h
             /\ INVENTORY_CACHE' = INVENTORY_CACHE
             /\ served' = served /\ clock' = clock /\ proc' = proc]_vars

\* a later request answered 200 after an earlier update failed at the sink
C12_AnsweredAfterFailedWrite ==
    \E i \in 1..Len(sink.log) :
        /\ sink.log[i].result = "failed"
        /\ h[1].pc = "Responded" /\ h[1].code = 200 /\ h[1].task > sink.log[i].id

\* a field that is missing, or a string that is empty once trimmed
MissingOrBlank(v) == v = None \/ (v.t = "str" /\ Strip(v.cs) = <<>>)

\* the bodies C13 names: not parseable, or one of the three fields missing or blank
ClaimedMalformed(body) ==
    \/ body.kind = "unparseable"
    \/ body.kind = "object"
         /\ (MissingOrBlank(body.row) \/ MissingOrBlank(body.product) \/ MissingOrBlank(body.store))

\* C13: whenever a request arrives, one with such a body that passes the secret check
\* is answered 400, and an answer of 400 comes with no update submitted, no fetch, and
\* the cache as it was
C13_RejectedHasNoEffect ==
    [][/\ served' # served
             => \A req \in LiveRequests :
                   ((~env.WEBHOOK_SECRET \/ req.secret = "match") /\ ClaimedMalformed(req.body))
                   => Begin(req) = Rejected(400)
       /\ \A t \in Threads :
             (Answers(t) /\ h'[t].code = 400)
             => /\ h'[t].fetches = 0 /\ h'[t].updates = 0 /\ h'[t].task = 0
                /\ queue' = queue /\ running' = running /\ sink' = sink
                /\ INVENTORY_CACHE' = INVENTORY_CACHE /\ lastPut' = lastPut]_vars

\* a request answered 400 while the cache holds a snapshot
C13_RejectedWithCacheFilled ==
    h[1].pc = "Responded" /\ h[1].code = 400 /\ INVENTORY_CACHE # <<>> /\ served = 2

\* C14: an answer with any 2xx status and a list of records is a success: the index is
\* built and stored for the store, and the item is resolved from it
C14_Any2xxIsSuccess ==
    [][\A t \in Threads :
          (/\ h[t].pc = "CacheMissFetching" /\ h'[t].pc # "CacheMissFetching"
           /\ h'[t].pc = "Resolved"
           /\ h'[t].resp.kind = "http"
           /\ 200 <= h'[t].resp.status_code /\ h'[t].resp.status_code < 300
           /\ h'[t].resp.doc.shape = "list"
           /\ InventoryMap(h'[t].resp.doc).exc = "none"
           /\ ResolveFetched(InventoryMap(h'[t].resp.doc).v, h[t].product_id).kind = "update")
          => /\ CacheGet(INVENTORY_CACHE', h[t].store_id)
                  = Entry(h[t].store_id, clock, InventoryMap(h'[t].resp.doc).v)
             /\ h'[t].result = ResolveFetched(InventoryMap(h'[t].resp.doc).v, h[t].product_id)]_vars

\* the first n characters of s
FirstChars(s, n) == SubSeq(s, 1, IF Len(s) < n THEN Len(s) ELSE n)

\* C15: the payload has one row, keyed with the row id; Quantity is "0" when missing
\* and str(quantity) otherwise, Status is "" when missing, Error is "" when missing
\* and otherwise the first 250 characters of the text
C15_PayloadBuilt ==
    pure.stage = "built"
    => /\ Len(pure.payload.Rows) = 1
       /\ LET row == pure.payload.Rows[1]
          IN  /\ row.key = pure.row_id
              /\ row.Quantity = (IF pure.quantity = None THEN "0" ELSE PyStr(pure.quantity))
              /\ row.Status = (IF pure.status = None THEN "" ELSE PyStr(pure.status))
              /\ row.Error = (IF pure.error_message = None THEN ""
                              ELSE FirstChars(PyStr(pure.error_message), 250))
              /\ Len(row.Error) <= 250

\* a payload built from an error text longer than the column takes
C15_LongErrorCut ==
    /\ pure.stage = "built"
    /\ pure.error_message # None
    /\ Len(PyStr(pure.error_message)) > 250
    /\ pure.quantity = None

\* C16: an answer of 200 is given by a handler that has submitted exactly one update,
\* and that submission queued one task carrying the request's own row id
C16_OneUpdateBefore200 ==
    [][\A t \in Threads :
          /\ (Answers(t) /\ h'[t].code = 200)
             => /\ h[t].pc = "SinkSubmitted"
                /\ h[t].updates = 1
                /\ h[t].task \in 1..sink.submitted
          /\ (h[t].pc # "SinkSubmitted" /\ h'[t].pc = "SinkSubmitted" /\ h'[t].ret = 200)
             => /\ h[t].updates = 0 /\ h'[t].updates = 1
                /\ sink'.submitted = sink.submitted + 1
                /\ queue' = Append(queue, queue'[Len(queue')])
                /\ queue'[Len(queue')].id = h'[t].task
                /\ queue'[Len(queue')].payload.Rows[1].key = h[t].row_id
                /\ Len(queue'[Len(queue')].payload.Rows) = 1]_vars

\* the second request is answered 200 with the second update submitted
C16_SecondAnswered ==
    h[1].pc = "Responded" /\ h[1].code = 200 /\ h[1].task = 2 /\ sink.submitted = 2

\* C17: a lookup that finds a snapshot younger than CACHE_TTL starts no fetch, and no
\* step of a request served from the cache changes the cache, timestamps included
C17_HitLeavesCacheAlone ==
    [][\A t \in Threads :
          /\ (/\ h[t].pc = "Lookup" /\ h'[t].pc # "Lookup"
              /\ CacheGet(INVENTORY_CACHE, h[t].store_id) # NoEntry
              /\ clock - CacheGet(INVENTORY_CACHE, h[t].store_id).timestamp < CACHE_TTL)
             => /\ h'[t].pc # "CacheMissFetching"
                /\ h'[t].fetches = 0
                /\ INVENTORY_CACHE' = INVENTORY_CACHE
          /\ (h[t].path = "hit" /\ h'[t] # h[t])
             => /\ h'[t].pc # "CacheMissFetching"
                /\ h[t].fetches = 0
                /\ INVENTORY_CACHE' = INVENTORY_CACHE]_vars

\* a hit on a snapshot that has aged, and is still in the cache with its first timestamp
C17_HitOnAgedSnapshot ==
    /\ h[1].pc = "Resolved" /\ h[1].path = "hit"
    /\ h[1].now - h[1].entry.timestamp = TickStep
    /\ CacheGet(INVENTORY_CACHE, h[1].store_id) = h[1].entry

\* thread t takes a step of its prune pass
Prunes(t) == h[t].pc \in {"PruneScan", "PruneDelete"} /\ h'[t] # h[t]

Aged(entry, now) == now - entry.timestamp >= CACHE_TTL

\* C18: the scan selects exactly the entries of age CACHE_TTL or more; the removal of
\* a selected entry still of that age leaves every other entry as it was; a pass that
\* completes leaves no entry of that age; and a pass ended by its own exception only
\* sends the request on to the lookup
C18_PruneRemovesTheExpired ==
    [][\A t \in Threads :
          /\ (Prunes(t) /\ h[t].pc = "PruneScan" /\ h'[t].prune # "aborted")
             => /\ INVENTORY_CACHE' = INVENTORY_CACHE
                /\ \A s \in Stores :
                      (\E i \in 1..Len(h'[t].expired) : h'[t].expired[i] = s)
                      <=> (CacheGet(INVENTORY_CACHE, s) # NoEntry
                             /\ Aged(CacheGet(INVENTORY_CACHE, s), h[t].pnow))
          /\ (Prunes(t) /\ h[t].pc = "PruneDelete" /\ h'[t].prune # "aborted"
                /\ Aged(CacheGet(INVENTORY_CACHE, Head(h[t].expired)), h[t].pnow))
             => /\ CacheGet(INVENTORY_CACHE', Head(h[t].expired)) = NoEntry
                /\ \A s \in Stores \ {Head(h[t].expired)} :
                      CacheGet(INVENTORY_CACHE', s) = CacheGet(INVENTORY_CACHE, s)
          /\ (Prunes(t) /\ h'[t].prune = "complete")
             => \A i \in 1..Len(INVENTORY_CACHE') : ~Aged(INVENTORY_CACHE'[i], h[t].pnow)
          /\ (Prunes(t) /\ h'[t].prune = "aborted")
             => /\ h'[t].pc = "Lookup"
                /\ INVENTORY_CACHE' = INVENTORY_CACHE
                /\ h'[t].validated
                /\ h'[t].row_id = h[t].row_id /\ h'[t].store_id = h[t].store_id
                /\ h'[t].product_id = h[t].product_id]_vars

\* a pass has completed by removing the one aged entry, and the other store's younger
\* entry is in place as it was stored
C18_RemovedOneKeptOne ==
    \E t \in Threads :
        /\ h[t].pc = "Lookup" /\ h[t].prune = "complete"
        /\ lastPut["S1"].puts = 1 /\ CacheGet(INVENTORY_CACHE, "S1") = NoEntry
        /\ lastPut["S2"].puts = 1 /\ CacheGet(INVENTORY_CACHE, "S2") = lastPut["S2"].entry

\* C19: the entry a prune pass removes is never younger than CACHE_TTL at the moment
\* it is removed
C19_PruneSparesTheFresh ==
    [][\A t \in Threads :
          (h[t].pc = "PruneDelete" /\ h'[t] # h[t]
              /\ CacheGet(INVENTORY_CACHE, Head(h[t].expired)) # NoEntry)
          => \/ CacheGet(INVENTORY_CACHE', Head(h[t].expired)) # NoEntry
             \/ clock - CacheGet(INVENTORY_CACHE, Head(h[t].expired)).timestamp >= CACHE_TTL]_vars

\* C20: the POSTs for one row reach the sink in the order their updates were submitted
C20_SentInSubmissionOrder ==
    \A i, j \in 1..Len(sink.log) :
        (i < j /\ sink.log[i].key = sink.log[j].key) => sink.log[i].id < sink.log[j].id

\* thread t has just fetched the index that the cache now serves for its store, and
\* holds the update it is about to submit
JustFetched(t) ==
    /\ h[t].pc = "Resolved" /\ h[t].path = "miss"
    /\ h[t].resp.kind = "http" /\ h[t].resp.status_code = 200
    /\ h[t].resp.doc.shape = "list"
    /\ IsFresh(CacheGet(INVENTORY_CACHE, h[t].store_id), clock)
    /\ InventoryMap(h[t].resp.doc) =
          Returned(CacheGet(INVENTORY_CACHE, h[t].store_id).inventory_map)

\* C21: a request resolved from the cache submits the same (quantity, status, error)
\* as the request that has just fetched the same index submits for the same item
C21_HitResolvesAsFetch ==
    [][\A t, u \in Threads :
          (/\ JustFetched(t)
           /\ h[u].pc = "Lookup" /\ h'[u] # h[u]
           /\ h[u].store_id = h[t].store_id
           /\ h[u].product_id = h[t].product_id)
          => /\ h'[u].pc = "Resolved"
             /\ h'[u].result = h[t].result]_vars

\* C22: with a secret configured, a request whose X-Custom-Secret header is not the
\* secret is answered 401 whatever its body, with no prune pass, no fetch, no update
\* submitted, and the cache as it was
C22_BadSecretIs401 ==
    [][(served' # served /\ env.WEBHOOK_SECRET)
          => \A req \in LiveRequests :
                (req.secret # "match" /\ h'[1] = Begin(req))
                => /\ h'[1] = Rejected(401)
                   /\ h'[1].prune = "none" /\ h'[1].fetches = 0 /\ h'[1].updates = 0
                   /\ queue' = queue /\ running' = running /\ sink' = sink
                   /\ INVENTORY_CACHE' = INVENTORY_CACHE /\ lastPut' = lastPut]_vars

====
